---- MODULE Spec2Model ----
(***************************************************************************)
(* Model of src/server.js: the WebSocket relay between a client and the    *)
(* AssemblyAI streaming endpoint (wss.on('connection'), lines 29-82).      *)
(*                                                                         *)
(* Each accepted client connection `ws` gets one upstream socket `aaiWs`.  *)
(* The handlers registered on the two sockets are the actions of the       *)
(* model; the `ws` library's readyState transitions are the environment.   *)
(***************************************************************************)
EXTENDS Naturals, Sequences, FiniteSets

VARIABLES
    upState,      \* aaiWs.readyState per session ("NONE" before the connection)
    clState,      \* ws.readyState per session    ("NONE" before the connection)
    upSent,       \* what aaiWs.send transmitted, in order
    clSent,       \* what ws.send transmitted, in order
    clRecv,       \* history: frames delivered to ws.on('message')
    upRecv,       \* history: payloads delivered to aaiWs.on('message')
    closeCalls,   \* number of aaiWs.close() calls
    closeEvents,  \* number of 'close' events emitted by aaiWs
    upAtClose,    \* history: aaiWs.readyState when ws.on('close') ran ("" before)
    textAsBuffer, \* the installed ws delivers text frames as Buffer (ws >= 8)
    http          \* the POST /process-transcript requests, per request

vars == <<upState, clState, upSent, clSent, clRecv, upRecv,
          closeCalls, closeEvents, upAtClose, textAsBuffer, http>>

(***************************************************************************)
(* Bounds of the model.                                                    *)
(***************************************************************************)
MaxFrames == 2
MaxEvents == 2
NormFrames == 1
NormEvents == 1
FairFrames == 1
FairEvents == 1
MultiFrames == 1
MultiEvents == 1
MaxRequests == 2

SessionIds == {"A", "B"}

(***************************************************************************)
(* JSON values as they appear in a decoded upstream payload.  A value is a *)
(* record <tag, literal>; Undefined is a missing property.                 *)
(***************************************************************************)
Undefined == [t |-> "undefined", v |-> ""]
Null      == [t |-> "null", v |-> ""]
Bool(b)   == [t |-> "bool", v |-> b]
Num(n)    == [t |-> "num", v |-> n]
Str(s)    == [t |-> "str", v |-> s]

\* JavaScript ToBoolean, as used by `?:` (line 46) and `||` (line 50).
Truthy(x) ==
    ~ \/ x.t \in {"undefined", "null"}
      \/ x = Bool("false")
      \/ x = Num("0")
      \/ x = Str("")

\* An upstream payload: the text of a message and, when it is JSON, its shape.
Payload(wf, root, type, fmt, text) ==
    [wf |-> wf, root |-> root, type |-> type,
     turn_is_formatted |-> fmt, transcript |-> text]

NonJson    == Payload("nonjson", "none", Undefined, Undefined, Undefined)
JsonNull   == Payload("json", "null", Undefined, Undefined, Undefined)
JsonScalar == Payload("json", "scalar", Undefined, Undefined, Undefined)
JsonObj(type, fmt, text) == Payload("json", "object", type, fmt, text)

TurnMsg(fmt, text) == JsonObj(Str("Turn"), fmt, text)
TerminationMsg     == JsonObj(Str("Termination"), Undefined, Undefined)
BeginMsg           == JsonObj(Str("Begin"), Undefined, Undefined)
NoTypeMsg          == JsonObj(Undefined, Undefined, Undefined)

\* The payloads the relay handler is driven with in the session model.
Payloads ==
    {NonJson, JsonNull, NoTypeMsg, TerminationMsg, BeginMsg,
     TurnMsg(Bool("false"), Str("hello")),
     TurnMsg(Bool("true"), Undefined)}

\* The payloads two concurrent sessions are driven with.
MultiPayloads == {NonJson, TurnMsg(Bool("false"), Str("hello"))}

\* The wider domain the normalisation itself is driven with.
FmtValues  == {Undefined, Null, Bool("true"), Bool("false"), Num("1"), Str("false")}
TextValues == {Undefined, Null, Str(""), Str("hello")}
AllPayloads ==
    {NonJson, JsonNull, JsonScalar, NoTypeMsg, TerminationMsg, BeginMsg} \cup
    {TurnMsg(f, tx) : f \in FmtValues, tx \in TextValues}

(***************************************************************************)
(* aaiWs.on('message') body, lines 43-57, as a function of the payload.    *)
(***************************************************************************)
\* JSON.parse(message) throws (line 44)
ParseThrows(m) == m.wf # "json"

\* `data.type` throws a TypeError when data is null (line 45)
TypeAccessThrows(m) == m.root = "null"

\* data.type (undefined on scalars, arrays and objects without the key)
DataType(m) == IF m.root = "object" THEN m.type ELSE Undefined

MessageType_StrictTrue(m) ==
    IF m.turn_is_formatted = Bool("true") THEN "FinalTranscript" ELSE "PartialTranscript"

\* line 46
MessageType(m) ==
    IF Truthy(m.turn_is_formatted) THEN "FinalTranscript" ELSE "PartialTranscript"

\* line 50: data.transcript || ''
TextOf(m) == IF Truthy(m.transcript) THEN m.transcript ELSE Str("")

\* lines 47-51: the object handed to JSON.stringify and ws.send
\* (seq is the position of the upstream event the message was made from)
TranscriptMessage(seq, m) ==
    [seq |-> seq, type |-> "transcript",
     message_type |-> MessageType(m), text |-> TextOf(m)]

Outcome_ForwardAll(m) ==
    IF ParseThrows(m) \/ TypeAccessThrows(m) THEN "caught"
    ELSE IF DataType(m) = Str("Termination") THEN "log"
    ELSE "send"

\* What the handler does with payload m: "caught" (lines 55-57), "send"
\* (lines 45-51), "log" (lines 52-54) or "none".
Outcome(m) ==
    IF ParseThrows(m) \/ TypeAccessThrows(m) THEN "caught"
    ELSE IF DataType(m) = Str("Turn") THEN "send"
    ELSE IF DataType(m) = Str("Termination") THEN "log"
    ELSE "none"

(***************************************************************************)
(* Client frames.                                                          *)
(***************************************************************************)
Frames ==
    {[kind |-> "binary", data |-> "pcm0"], [kind |-> "binary", data |-> "pcm1"],
     [kind |-> "text", data |-> "txt"]}

\* Buffer.isBuffer(message), line 69.  ws delivers binary frames as Buffer;
\* text frames are delivered as string by ws < 8 and as Buffer by ws >= 8.
IsBuffer(f) == f.kind = "binary" \/ textAsBuffer

Terminate == [kind |-> "control", id |-> 0, data |-> "{\"type\":\"Terminate\"}"]

RECURSIVE SumLen(_, _)
SumLen(f, S) ==
    IF S = {} THEN 0
    ELSE LET s == CHOOSE x \in S : TRUE IN Len(f[s]) + SumLen(f, S \ {s})

TotalFrames == SumLen(clRecv, SessionIds)
TotalEvents == SumLen(upRecv, SessionIds)

(***************************************************************************)
(* POST /process-transcript, lines 85-162.                                 *)
(***************************************************************************)
Requests == 1..MaxRequests

\* The limits of interviewSchema, lines 98-103.
MaxNameLen == 255
MaxTypeLen == 50
MaxDescriptionLen == 130000
MaxAddressLen == 130000

\* req.body as express.json() (line 17) leaves it: an object whose transcript is
\* absent, null or a string, or (Express 5, request without a JSON body)
\* undefined.  Express 4 hands over {} for a request without a body.
Body(parsed, tr) == [parsed |-> parsed, transcript |-> tr]
NoBody == Body(FALSE, Undefined)
Bodies == {NoBody} \cup {Body(TRUE, tr) : tr \in {Undefined, Null, Str(""), Str("notes")}}

\* completion.choices[0].message.content: text that is not JSON, a completion
\* without choices, JSON null, or a JSON object.  Strings are kept by their
\* lengths; arr = FALSE is a missing or non-array property.
Content(wf, root, tr, comp, obj) ==
    [wf |-> wf, root |-> root, transcript |-> tr, competitors |-> comp,
     objections |-> obj]
NotArray == [arr |-> FALSE, items |-> <<>>]
Array(items) == [arr |-> TRUE, items |-> items]
Objection(ty, d, a) == [type |-> ty, description |-> d, address |-> a]
NoContent == Content("none", "none", Undefined, NotArray, NotArray)
TextContent == Content("nonjson", "none", Undefined, NotArray, NotArray)
NoChoice == Content("nochoice", "none", Undefined, NotArray, NotArray)
NullContent == Content("json", "null", Undefined, NotArray, NotArray)
CompetitorValues ==
    {NotArray, Array(<<[name |-> 8]>>), Array(<<[name |-> MaxNameLen + 1]>>)}
ObjectionValues ==
    {Array(<<>>), Array(<<Objection(5, 20, 20)>>),
     Array(<<Objection(MaxTypeLen + 1, 20, 20)>>),
     Array(<<Objection(5, MaxDescriptionLen + 1, MaxAddressLen)>>)}
Contents ==
    {TextContent, NoChoice, NullContent} \cup
    {Content("json", "object", tr, c, o) :
        tr \in {Undefined, Str("notes")}, c \in CompetitorValues,
        o \in ObjectionValues}

\* How the awaited call of line 117 settles.
Outcomes ==
    {[settled |-> "rejected", content |-> NoContent]} \cup
    {[settled |-> "resolved", content |-> c] : c \in Contents}
NoOutcome == [settled |-> "none", content |-> NoContent]
SetupFailed == [settled |-> "setup", content |-> NoContent]

IdleRequest ==
    [pc |-> "idle", body |-> NoBody, calls |-> 0,
     outcome |-> NoOutcome, responses |-> <<>>]

\* line 152 throws: there is no choice to read, or the content is not JSON
ContentThrows(c) == c.wf # "json"

\* interviewSchema.parse(jsonOutput), lines 95-105 and 155
SchemaOk(c) ==
    /\ c.root = "object"
    /\ c.transcript.t = "str"
    /\ c.competitors.arr
    /\ \A i \in 1..Len(c.competitors.items) :
          c.competitors.items[i].name <= MaxNameLen
    /\ c.objections.arr
    /\ \A i \in 1..Len(c.objections.items) :
          /\ c.objections.items[i].type <= MaxTypeLen
          /\ c.objections.items[i].description <= MaxDescriptionLen
          /\ c.objections.items[i].address <= MaxAddressLen

ErrorResponse(status, msg) == [status |-> status, error |-> msg, object |-> NoContent]
ObjectResponse(c) == [status |-> 200, error |-> "", object |-> c]

\* lines 152-161: what the handler answers once the call has settled
ResponseFor(o) ==
    IF o.settled # "resolved" \/ ContentThrows(o.content) \/ ~SchemaOk(o.content)
    THEN ErrorResponse(500, "Failed to process transcript")
    ELSE ObjectResponse(o.content)

RelayVars == <<upState, clState, upSent, clSent, clRecv, upRecv,
               closeCalls, closeEvents, upAtClose, textAsBuffer>>

\* lines 85-117: the request arrives.  Destructuring an undefined req.body
\* throws at line 86, outside the try: the handler answers nothing and the
\* framework's error handler answers 500.  Without a transcript the handler
\* answers 400; otherwise the schema and the client are set up (a throw there
\* is caught at line 158) and the handler suspends on the remote call.
PostProcessTranscript(r, body, setupOk) ==
    /\ http[r].pc = "idle"
    /\ http' = [http EXCEPT ![r] =
         IF ~body.parsed
         THEN [@ EXCEPT !.pc = "done", !.body = body,
                        !.responses = Append(@, ErrorResponse(500, "TypeError"))]
         ELSE IF ~Truthy(body.transcript)
         THEN [@ EXCEPT !.pc = "done", !.body = body,
                        !.responses = Append(@, ErrorResponse(400, "Transcript is required"))]
         ELSE IF ~setupOk
         THEN [@ EXCEPT !.pc = "done", !.body = body, !.outcome = SetupFailed,
                        !.responses = Append(@, ResponseFor(SetupFailed))]
         ELSE [@ EXCEPT !.pc = "awaiting", !.body = body, !.calls = @ + 1]]
    /\ UNCHANGED RelayVars

\* lines 117-161: the remote call settles and the handler answers.
RemoteSettles(r, o) ==
    /\ http[r].pc = "awaiting"
    /\ http' = [http EXCEPT ![r] =
         [@ EXCEPT !.pc = "done", !.outcome = o,
                   !.responses = Append(@, ResponseFor(o))]]
    /\ UNCHANGED RelayVars

(***************************************************************************)
(* Initial state: the server is listening, no client has connected.        *)
(***************************************************************************)
Init ==
    /\ upState = [s \in SessionIds |-> "NONE"]
    /\ clState = [s \in SessionIds |-> "NONE"]
    /\ upSent = [s \in SessionIds |-> <<>>]
    /\ clSent = [s \in SessionIds |-> <<>>]
    /\ clRecv = [s \in SessionIds |-> <<>>]
    /\ upRecv = [s \in SessionIds |-> <<>>]
    /\ closeCalls = [s \in SessionIds |-> 0]
    /\ closeEvents = [s \in SessionIds |-> 0]
    /\ upAtClose = [s \in SessionIds |-> ""]
    /\ textAsBuffer \in BOOLEAN
    /\ http = [r \in Requests |-> IdleRequest]

(***************************************************************************)
(* wss.on('connection'), lines 29-36: the client socket is open and the    *)
(* upstream socket is created in readyState CONNECTING.                    *)
(***************************************************************************)
Connection(s) ==
    /\ clState[s] = "NONE"
    /\ clState' = [clState EXCEPT ![s] = "OPEN"]
    /\ upState' = [upState EXCEPT ![s] = "CONNECTING"]
    /\ UNCHANGED <<upSent, clSent, clRecv, upRecv, closeCalls, closeEvents,
                   upAtClose, textAsBuffer, http>>

\* aaiWs.on('open'), lines 38-40: logs only.
AaiOnOpen(s) ==
    /\ upState[s] = "CONNECTING"
    /\ upState' = [upState EXCEPT ![s] = "OPEN"]
    /\ UNCHANGED <<clState, upSent, clSent, clRecv, upRecv, closeCalls,
                   closeEvents, upAtClose, textAsBuffer, http>>

WsSend_Always(s, msg) == clSent' = [clSent EXCEPT ![s] = Append(@, msg)]

\* ws.send(data) at line 47: transmits only while the client socket is OPEN
\* (otherwise the library drops the data or throws into the catch at line 55).
WsSend(s, msg) ==
    IF clState[s] = "OPEN"
    THEN clSent' = [clSent EXCEPT ![s] = Append(@, msg)]
    ELSE UNCHANGED clSent

\* The handler without its try/catch: a payload that throws takes the process
\* down, and both sockets with it.
AaiOnMessage_Uncaught(s, m) ==
    /\ \/ upState[s] = "OPEN"
       \/ upState[s] = "CLOSING" /\ closeCalls[s] > 0
    /\ upRecv' = [upRecv EXCEPT ![s] =
                    Append(@, [seq |-> Len(@) + 1, payload |-> m,
                               clOpen |-> clState[s] = "OPEN"])]
    /\ IF Outcome(m) = "send"
       THEN WsSend(s, TranscriptMessage(Len(upRecv[s]) + 1, m))
       ELSE UNCHANGED clSent
    /\ IF Outcome(m) = "caught"
       THEN /\ upState' = [upState EXCEPT ![s] = "CLOSED"]
            /\ clState' = [clState EXCEPT ![s] = "CLOSED"]
       ELSE UNCHANGED <<upState, clState>>
    /\ UNCHANGED <<upSent, clRecv, closeCalls, closeEvents, upAtClose, textAsBuffer, http>>

\* The handler closing the upstream socket when it sees "Termination".
AaiOnMessage_CloseOnTermination(s, m) ==
    /\ \/ upState[s] = "OPEN"
       \/ upState[s] = "CLOSING" /\ closeCalls[s] > 0
    /\ upRecv' = [upRecv EXCEPT ![s] =
                    Append(@, [seq |-> Len(@) + 1, payload |-> m,
                               clOpen |-> clState[s] = "OPEN"])]
    /\ IF Outcome(m) = "send"
       THEN WsSend(s, TranscriptMessage(Len(upRecv[s]) + 1, m))
       ELSE UNCHANGED clSent
    /\ IF Outcome(m) = "log"
       THEN /\ upState' = [upState EXCEPT ![s] = IF @ = "OPEN" THEN "CLOSING" ELSE @]
            /\ closeCalls' = [closeCalls EXCEPT ![s] = @ + 1]
       ELSE UNCHANGED <<upState, closeCalls>>
    /\ UNCHANGED <<clState, upSent, clRecv, closeEvents, upAtClose, textAsBuffer, http>>

\* aaiWs.on('message'), lines 42-58.
AaiOnMessage(s, m) ==
    /\ \/ upState[s] = "OPEN"
       \/ upState[s] = "CLOSING" /\ closeCalls[s] > 0
    /\ upRecv' = [upRecv EXCEPT ![s] =
                    Append(@, [seq |-> Len(@) + 1, payload |-> m,
                               clOpen |-> clState[s] = "OPEN"])]
    /\ IF Outcome(m) = "send"
       THEN WsSend(s, TranscriptMessage(Len(upRecv[s]) + 1, m))
       ELSE UNCHANGED clSent
    /\ UNCHANGED <<upState, clState, upSent, clRecv, closeCalls, closeEvents,
                   upAtClose, textAsBuffer, http>>

\* aaiWs.on('error'), lines 60-62: logs only.  The library has already moved
\* the socket out of CONNECTING/OPEN when it emits 'error'.
AaiOnError(s) ==
    /\ upState[s] \in {"CONNECTING", "OPEN"}
    /\ upState' = [upState EXCEPT ![s] = "CLOSING"]
    /\ UNCHANGED <<clState, upSent, clSent, clRecv, upRecv, closeCalls,
                   closeEvents, upAtClose, textAsBuffer, http>>

\* The upstream peer's close frame arrives: readyState becomes CLOSING; no
\* handler of server.js runs until the 'close' event.
AaiPeerClosing(s) ==
    /\ upState[s] = "OPEN"
    /\ upState' = [upState EXCEPT ![s] = "CLOSING"]
    /\ UNCHANGED <<clState, upSent, clSent, clRecv, upRecv, closeCalls,
                   closeEvents, upAtClose, textAsBuffer, http>>

\* A 'close' handler that opens the upstream link again.
AaiOnClose_Reconnect(s) ==
    /\ upState[s] \in {"OPEN", "CLOSING"}
    /\ upState' = [upState EXCEPT ![s] = "CONNECTING"]
    /\ closeEvents' = [closeEvents EXCEPT ![s] = @ + 1]
    /\ UNCHANGED <<clState, upSent, clSent, clRecv, upRecv, closeCalls,
                   upAtClose, textAsBuffer, http>>

\* aaiWs.on('close'), lines 64-66: logs only.
AaiOnClose(s) ==
    /\ upState[s] \in {"OPEN", "CLOSING"}
    /\ upState' = [upState EXCEPT ![s] = "CLOSED"]
    /\ closeEvents' = [closeEvents EXCEPT ![s] = @ + 1]
    /\ UNCHANGED <<clState, upSent, clSent, clRecv, upRecv, closeCalls,
                   upAtClose, textAsBuffer, http>>

\* The guard of line 69.
ShouldForward(s, f) == IsBuffer(f) /\ upState[s] = "OPEN"

Forward_Prepend(sent, id, f) ==
    <<[kind |-> "audio", id |-> id, data |-> f.data]>> \o sent

\* aaiWs.send(message), line 70: the frame goes out after what was sent before.
Forward(sent, id, f) == Append(sent, [kind |-> "audio", id |-> id, data |-> f.data])

\* A handler that sends on an upstream socket shared by the sessions (aaiWs
\* kept outside the connection closure): the frame reaches every open link.
WsOnMessage_SharedUpstream(s, f) ==
    /\ clState[s] = "OPEN"
    /\ clRecv' = [clRecv EXCEPT ![s] =
                    Append(@, [id |-> Len(@) + 1, kind |-> f.kind, data |-> f.data,
                               upOpen |-> upState[s] = "OPEN"])]
    /\ IF IsBuffer(f)
       THEN upSent' = [t \in SessionIds |->
                         IF upState[t] = "OPEN"
                         THEN Forward(upSent[t], Len(clRecv[s]) + 1, f)
                         ELSE upSent[t]]
       ELSE UNCHANGED upSent
    /\ UNCHANGED <<upState, clState, clSent, upRecv, closeCalls, closeEvents,
                   upAtClose, textAsBuffer, http>>

\* A handler that takes a text frame as the client's request to stop and
\* sends the Terminate message for it, leaving both sockets open.
WsOnMessage_TerminateOnText(s, f) ==
    /\ clState[s] = "OPEN"
    /\ clRecv' = [clRecv EXCEPT ![s] =
                    Append(@, [id |-> Len(@) + 1, kind |-> f.kind, data |-> f.data,
                               upOpen |-> upState[s] = "OPEN"])]
    /\ IF upState[s] = "OPEN"
       THEN upSent' = [upSent EXCEPT ![s] =
                         IF f.kind = "binary"
                         THEN Forward(@, Len(clRecv[s]) + 1, f)
                         ELSE Append(@, Terminate)]
       ELSE UNCHANGED upSent
    /\ UNCHANGED <<upState, clState, clSent, upRecv, closeCalls, closeEvents,
                   upAtClose, textAsBuffer, http>>

\* ws.on('message'), lines 68-72.
WsOnMessage(s, f) ==
    /\ clState[s] = "OPEN"
    /\ clRecv' = [clRecv EXCEPT ![s] =
                    Append(@, [id |-> Len(@) + 1, kind |-> f.kind, data |-> f.data,
                               upOpen |-> upState[s] = "OPEN"])]
    /\ IF ShouldForward(s, f)
       THEN upSent' = [upSent EXCEPT ![s] = Forward(@, Len(clRecv[s]) + 1, f)]
       ELSE UNCHANGED upSent
    /\ UNCHANGED <<upState, clState, clSent, upRecv, closeCalls, closeEvents,
                   upAtClose, textAsBuffer, http>>

\* The client's close frame arrives: ws.readyState becomes CLOSING; the
\* 'close' event follows.
WsPeerClosing(s) ==
    /\ clState[s] = "OPEN"
    /\ clState' = [clState EXCEPT ![s] = "CLOSING"]
    /\ UNCHANGED <<upState, upSent, clSent, clRecv, upRecv, closeCalls,
                   closeEvents, upAtClose, textAsBuffer, http>>

ShouldTerminate_Never(s) == FALSE
ShouldTerminate_Always(s) == TRUE

\* The guard of line 75.
ShouldTerminate(s) == upState[s] = "OPEN"

\* aaiWs.close(), line 79: a socket that is CONNECTING or OPEN starts closing;
\* one that is CLOSING or CLOSED stays as it is.
AaiClose(s) ==
    /\ upState' = [upState EXCEPT ![s] =
                     IF @ \in {"CONNECTING", "OPEN"} THEN "CLOSING" ELSE @]
    /\ closeCalls' = [closeCalls EXCEPT ![s] = @ + 1]

\* ws.on('close'), lines 74-81.
WsOnClose(s) ==
    /\ clState[s] \in {"OPEN", "CLOSING"}
    /\ clState' = [clState EXCEPT ![s] = "CLOSED"]
    /\ IF ShouldTerminate(s)
       THEN upSent' = [upSent EXCEPT ![s] = Append(@, Terminate)]
       ELSE UNCHANGED upSent
    /\ AaiClose(s)
    /\ upAtClose' = [upAtClose EXCEPT ![s] = upState[s]]
    /\ UNCHANGED <<clSent, clRecv, upRecv, closeEvents, textAsBuffer, http>>

\* One step of session s, with at most maxF client frames and maxE upstream
\* payloads (over all sessions), the payloads drawn from P.
Step(s, maxF, maxE, P) ==
    \/ Connection(s)
    \/ AaiOnOpen(s)
    \/ TotalEvents < maxE /\ \E m \in P : AaiOnMessage(s, m)
    \/ AaiOnError(s)
    \/ AaiPeerClosing(s)
    \/ AaiOnClose(s)
    \/ TotalFrames < maxF /\ \E f \in Frames : WsOnMessage(s, f)
    \/ WsPeerClosing(s)
    \/ WsOnClose(s)

\* One client connection.
Next == \E s \in {"A"} : Step(s, MaxFrames, MaxEvents, Payloads)

Spec == Init /\ [][Next]_vars

\* The library emits 'close' on a socket that has started closing (the close
\* handshake completes or its timer destroys the socket).
FairNext == \E s \in {"A"} : Step(s, FairFrames, FairEvents, Payloads)

FairSpec == Init /\ [][FairNext]_vars /\ \A s \in {"A"} : WF_vars(AaiOnClose(s))

\* One client connection, the upstream payload drawn from the wide domain.
NormNext == \E s \in {"A"} : Step(s, NormFrames, NormEvents, AllPayloads)

NormSpec == Init /\ [][NormNext]_vars

\* Two client connections at once.
MultiNext == \E s \in SessionIds : Step(s, MultiFrames, MultiEvents, MultiPayloads)

MultiSpec == Init /\ [][MultiNext]_vars

\* The requests of the HTTP endpoint.
HttpNext ==
    \E r \in Requests :
        \/ \E b \in Bodies, ok \in BOOLEAN : PostProcessTranscript(r, b, ok)
        \/ \E o \in Outcomes : RemoteSettles(r, o)

HttpSpec == Init /\ [][HttpNext]_vars

(***************************************************************************)
(* Properties.                                                             *)
(***************************************************************************)
IsAudio(e) == e.kind = "audio"
IsTerminate(e) == e = Terminate
AudioSent(s) == SelectSeq(upSent[s], IsAudio)
TerminatesSent(s) == Len(SelectSeq(upSent[s], IsTerminate))

\* The session states of the design: ACTIVE is both sockets OPEN.
Active(s) == clState[s] = "OPEN" /\ upState[s] = "OPEN"

\* C1: when the client disconnects while aaiWs is OPEN, exactly one Terminate
\* message is sent upstream, it is sent while the transport is still open and
\* the same handler then requests the close, and exactly one upstream 'close'
\* event follows.
C1_GracefulDisconnect ==
    /\ [](\A s \in SessionIds :
            upAtClose[s] = "OPEN" =>
                /\ TerminatesSent(s) = 1
                /\ upSent[s][Len(upSent[s])] = Terminate
                /\ closeCalls[s] = 1
                /\ upState[s] \in {"CLOSING", "CLOSED"}
                /\ closeEvents[s] <= 1)
    /\ [][\A s \in SessionIds :
            upSent'[s] # upSent[s] /\ upSent'[s][Len(upSent'[s])] = Terminate =>
                /\ upState[s] = "OPEN" /\ closeEvents[s] = 0
                /\ closeCalls'[s] = closeCalls[s] + 1
                /\ upState'[s] = "CLOSING"]_vars
    /\ \A s \in SessionIds :
            (upAtClose[s] = "OPEN") ~> (closeEvents[s] = 1 /\ upState[s] = "CLOSED")

C1_Witness ==
    /\ upAtClose["A"] = "OPEN"
    /\ TerminatesSent("A") = 1
    /\ Len(AudioSent("A")) > 0
    /\ closeEvents["A"] = 1

\* C2: in an ACTIVE session an upstream error or close closes the client
\* transport (and sends no Terminate upstream).
C2_UpstreamFailureClosesClient ==
    [][\A s \in SessionIds :
          (Active(s) /\ upState'[s] = "CLOSED" /\ closeEvents'[s] = closeEvents[s] + 1)
          => (clState'[s] \in {"CLOSING", "CLOSED"} /\ upSent'[s] = upSent[s])]_vars

\* The values JavaScript treats as false.
Falsy == {Undefined, Null, Bool("false"), Num("0"), Str("")}

\* Every message sent to the client was made from a Turn event, and every Turn
\* event received while the client socket was OPEN produced one.
TurnsAnswered(s) ==
    /\ \A i \in 1..Len(clSent[s]) :
          /\ clSent[s][i].seq \in 1..Len(upRecv[s])
          /\ upRecv[s][clSent[s][i].seq].payload.type = Str("Turn")
          /\ clSent[s][i].type = "transcript"
          /\ clSent[s][i].message_type \in {"FinalTranscript", "PartialTranscript"}
          /\ clSent[s][i].text.t \notin {"null", "undefined"}
    /\ \A j \in 1..Len(upRecv[s]) :
          (upRecv[s][j].payload.type = Str("Turn") /\ upRecv[s][j].clOpen)
          => \E i \in 1..Len(clSent[s]) : clSent[s][i].seq = j

\* C3 (as amended): for every upstream Turn event the message sent to the
\* client is FinalTranscript iff turn_is_formatted is truthy and
\* PartialTranscript otherwise; its text is the event's transcript when that is
\* truthy and the empty string otherwise, never null or undefined.
C3_NormalizeTruthy ==
    \A s \in SessionIds :
        /\ TurnsAnswered(s)
        /\ \A i \in 1..Len(clSent[s]) :
              LET msg == clSent[s][i]
                  e == upRecv[s][msg.seq].payload
              IN /\ (msg.message_type = "FinalTranscript")
                        <=> (e.turn_is_formatted \notin Falsy)
                 /\ msg.text = IF e.transcript \in Falsy THEN Str("") ELSE e.transcript

C3_Witness ==
    \E i \in 1..Len(clSent["A"]) :
        LET msg == clSent["A"][i]
            e == upRecv["A"][msg.seq].payload
        IN /\ e.turn_is_formatted = Str("false")
           /\ e.transcript = Null
           /\ msg.message_type = "FinalTranscript"
           /\ msg.text = Str("")

\* C3 (as stated): FinalTranscript iff turn_is_formatted == true (true, or 1
\* under loose equality); text is the transcript, or "" when it is absent.
C3_NormalizeAsStated ==
    \A s \in SessionIds :
        /\ TurnsAnswered(s)
        /\ \A i \in 1..Len(clSent[s]) :
              LET msg == clSent[s][i]
                  e == upRecv[s][msg.seq].payload
              IN /\ (msg.message_type = "FinalTranscript")
                        <=> (e.turn_is_formatted \in {Bool("true"), Num("1")})
                 /\ msg.text = IF e.transcript \in {Undefined, Null}
                               THEN Str("") ELSE e.transcript
\* The audio the relay should have sent: the binary frames that arrived
\* while aaiWs was OPEN, in arrival order.
IsOpenBinary(r) == r.kind = "binary" /\ r.upOpen
ExpectedAudio(s) ==
    LET q == SelectSeq(clRecv[s], IsOpenBinary)
    IN [i \in 1..Len(q) |-> [kind |-> "audio", id |-> q[i].id, data |-> q[i].data]]

\* C4: frames that arrive while aaiWs is not OPEN are dropped for good, and
\* what is sent upstream is exactly the binary frames that arrived while it
\* was OPEN.
C4_OnlyOpenBinaryForwarded ==
    \A s \in SessionIds : AudioSent(s) = ExpectedAudio(s)

\* The payload of the upstream message handled in this step, if any.
Handled(s) == Len(upRecv'[s]) = Len(upRecv[s]) + 1
HandledPayload(s) == upRecv'[s][Len(upRecv'[s])].payload
SessionUntouched(s) ==
    /\ upState'[s] = upState[s] /\ clState'[s] = clState[s]
    /\ upSent'[s] = upSent[s] /\ clSent'[s] = clSent[s]
    /\ closeCalls'[s] = closeCalls[s] /\ closeEvents'[s] = closeEvents[s]

\* Not JSON, or JSON that is not an object carrying a string `type`.
Undecodable(m) == m.wf # "json" \/ m.root # "object" \/ m.type.t # "str"

\* C5: an undecodable upstream payload is dropped: nothing is sent to the
\* client, neither transport changes state, and Turn events (also later ones)
\* are forwarded as long as the client socket is open.
C5_MalformedDropped ==
    /\ [][\A s \in SessionIds :
            Handled(s) /\ Undecodable(HandledPayload(s)) => SessionUntouched(s)]_vars
    /\ [](\A s \in SessionIds : TurnsAnswered(s))

C5_Witness ==
    /\ Len(upRecv["A"]) = 2
    /\ upRecv["A"][1].payload \in {NonJson, JsonNull}
    /\ upRecv["A"][2].payload.type = Str("Turn")
    /\ Len(clSent["A"]) = 1 /\ clSent["A"][1].seq = 2
    /\ Active("A")

\* C6: the audio sent upstream is an order-preserving, unmodified subsequence
\* of the frames received from the client, each at most once; the transcripts
\* sent to the client follow the order of the Turn events they were made from,
\* each at most once.
C6_OrderPreserved ==
    \A s \in SessionIds :
        /\ \A i \in 1..Len(AudioSent(s)) :
              /\ AudioSent(s)[i].id \in 1..Len(clRecv[s])
              /\ AudioSent(s)[i].data = clRecv[s][AudioSent(s)[i].id].data
        /\ \A i, j \in 1..Len(AudioSent(s)) :
              i < j => AudioSent(s)[i].id < AudioSent(s)[j].id
        /\ \A i \in 1..Len(clSent[s]) :
              /\ clSent[s][i].seq \in 1..Len(upRecv[s])
              /\ upRecv[s][clSent[s][i].seq].payload.type = Str("Turn")
        /\ \A i, j \in 1..Len(clSent[s]) :
              i < j => clSent[s][i].seq < clSent[s][j].seq

C6_Witness ==
    /\ Len(AudioSent("A")) = 2
    /\ AudioSent("A")[1].data # AudioSent("A")[2].data
    /\ Len(clSent["A"]) = 2
    /\ clSent["A"][1].message_type # clSent["A"][2].message_type

\* C7: an upstream event whose type is neither "Turn" nor "Termination" sends
\* nothing to the client and leaves both transports as they are.
C7_UnknownTypeIgnored ==
    [][\A s \in SessionIds :
          (/\ Handled(s)
           /\ HandledPayload(s).root = "object"
           /\ HandledPayload(s).type \notin {Str("Turn"), Str("Termination")})
          => SessionUntouched(s)]_vars

C7_Witness ==
    /\ Len(upRecv["A"]) = 2
    /\ upRecv["A"][1].payload = BeginMsg
    /\ upRecv["A"][2].payload = NoTypeMsg
    /\ upRecv["A"][2].clOpen
    /\ Active("A")
    /\ clSent["A"] = <<>>

\* C8: an upstream "Termination" event sends nothing to the client and closes
\* nothing; aaiWs.close() is called only from the client's 'close' event, and
\* a transport becomes CLOSED only by its own 'close' event.
C8_TerminationInformational ==
    /\ [][\A s \in SessionIds :
            Handled(s) /\ HandledPayload(s).type = Str("Termination")
            => SessionUntouched(s)]_vars
    /\ [][\A s \in SessionIds :
            /\ closeCalls'[s] # closeCalls[s]
                 => clState[s] \in {"OPEN", "CLOSING"} /\ clState'[s] = "CLOSED"
            /\ upState'[s] # upState[s] /\ upState'[s] = "CLOSED"
                 => closeEvents'[s] = closeEvents[s] + 1]_vars

C8_Witness ==
    /\ Len(upRecv["A"]) = 1
    /\ upRecv["A"][1].payload = TerminationMsg
    /\ upRecv["A"][1].clOpen
    /\ Active("A")
    /\ clSent["A"] = <<>>

\* C9: a text frame from the client is ignored in every state: nothing is
\* sent upstream or to the client for it and neither transport is closed.
C9_TextFrameIgnored ==
    [][\A s \in SessionIds :
          (/\ Len(clRecv'[s]) = Len(clRecv[s]) + 1
           /\ clRecv'[s][Len(clRecv'[s])].kind = "text")
          => SessionUntouched(s)]_vars

\* C10: the client's disconnect sends Terminate only if aaiWs is OPEN at that
\* moment; otherwise nothing is sent, the close is still requested, and the
\* session ends with both transports CLOSED.
C10_TerminateOnlyIfOpen ==
    /\ [](\A s \in SessionIds :
            /\ TerminatesSent(s) > 0 => upAtClose[s] = "OPEN"
            /\ upAtClose[s] \notin {"", "OPEN"} =>
                  /\ TerminatesSent(s) = 0
                  /\ closeCalls[s] = 1
                  /\ upState[s] \in {"CLOSING", "CLOSED"})
    /\ \A s \in SessionIds :
            (upAtClose[s] # "") ~> (clState[s] = "CLOSED" /\ upState[s] = "CLOSED")

C10_Witness ==
    /\ upAtClose["A"] = "CONNECTING"
    /\ upSent["A"] = <<>>
    /\ clState["A"] = "CLOSED" /\ upState["A"] = "CLOSED"
\* The order of aaiWs.readyState: a socket only moves forward.
Rank(st) ==
    CASE st = "NONE" -> 0
      [] st = "CONNECTING" -> 1
      [] st = "OPEN" -> 2
      [] st = "CLOSING" -> 3
      [] st = "CLOSED" -> 4

\* The upstream link is severed: it has failed, is closing or is closed.
Severed(s) == upState[s] \in {"CLOSING", "CLOSED"}

\* C11: a client connection opens its one upstream link when it is accepted;
\* the link is never opened again or replaced once it has left OPEN, and once
\* it is severed nothing more is relayed in either direction.
C11_NoReconnection ==
    /\ [](\A s \in SessionIds : (clState[s] = "NONE") <=> (upState[s] = "NONE"))
    /\ [][\A s \in SessionIds :
            /\ Rank(upState[s]) <= Rank(upState'[s])
            /\ upState'[s] = "CONNECTING" /\ upState[s] # "CONNECTING"
                 => clState[s] = "NONE" /\ clState'[s] = "OPEN"
            /\ clState[s] = "NONE" /\ clState'[s] # "NONE"
                 => upState'[s] = "CONNECTING"
            /\ Severed(s) => /\ Severed(s)'
                             /\ AudioSent(s)' = AudioSent(s)
                             /\ clSent'[s] = clSent[s]]_vars

C11_Witness ==
    /\ upState["A"] = "CLOSED" /\ closeEvents["A"] = 1
    /\ clState["A"] = "OPEN"
    /\ Len(clRecv["A"]) = 2
    /\ clRecv["A"][1].upOpen /\ clRecv["A"][1].kind = "binary"
    /\ ~clRecv["A"][2].upOpen /\ clRecv["A"][2].kind = "binary"
    /\ Len(AudioSent("A")) = 1

\* Everything the relay holds for session s.
SessionState(s) ==
    <<upState[s], clState[s], upSent[s], clSent[s], clRecv[s], upRecv[s],
      closeCalls[s], closeEvents[s], upAtClose[s]>>

\* C12: with two sessions, a step of one session leaves everything of the
\* other unchanged, and what a session sends upstream and to its client was
\* made from its own client's frames and its own upstream's events.
C12_SessionsIsolated ==
    /\ [][\A s, t \in SessionIds :
            s # t /\ SessionState(s)' # SessionState(s)
            => SessionState(t)' = SessionState(t)]_vars
    /\ [](\A s \in SessionIds :
            /\ \A i \in 1..Len(AudioSent(s)) :
                  /\ AudioSent(s)[i].id \in 1..Len(clRecv[s])
                  /\ AudioSent(s)[i].data = clRecv[s][AudioSent(s)[i].id].data
            /\ \A i \in 1..Len(clSent[s]) :
                  /\ clSent[s][i].seq \in 1..Len(upRecv[s])
                  /\ clSent[s][i] =
                       TranscriptMessage(clSent[s][i].seq,
                                         upRecv[s][clSent[s][i].seq].payload))

C12_Witness ==
    /\ Len(AudioSent("A")) = 1 /\ upState["A"] = "CLOSED" /\ clState["A"] = "OPEN"
    /\ Len(clSent["B"]) = 1 /\ Active("B")
    /\ upSent["B"] = <<>> /\ clSent["A"] = <<>>

\* No transcript was supplied with the request.
NoTranscript(q) == ~q.body.parsed \/ q.body.transcript \in Falsy

\* Request q is answered as the endpoint promises.
AnsweredAsPromised(q) ==
    /\ Len(q.responses) = (IF q.pc = "done" THEN 1 ELSE 0)
    /\ q.calls <= 1
    /\ q.pc = "done" /\ NoTranscript(q)
         => q.responses[1].status = 400 /\ q.calls = 0
    /\ q.pc = "done" /\ ~NoTranscript(q)
         => /\ (\/ q.outcome.settled # "resolved"
                \/ q.outcome.content.wf # "json"
                \/ ~SchemaOk(q.outcome.content))
                 => q.responses[1].status = 500
            /\ q.responses[1].status \in {200, 500}
            /\ q.responses[1].status = 200
                 => /\ q.outcome.settled = "resolved" /\ q.calls = 1
                    /\ SchemaOk(q.outcome.content)
                    /\ q.responses[1].object = q.outcome.content

\* C13: every request gets exactly one response: 400 and no remote call when
\* no transcript was supplied; 500 when the call fails, its output is not
\* JSON or fails the schema; 200 with the parsed object only when the schema
\* validation passed.
C13_OneResponsePerRequest == \A r \in Requests : AnsweredAsPromised(http[r])

\* What remains true of the code: the same for requests whose body was parsed.
ParsedBodyAnsweredAsPromised ==
    \A r \in Requests :
        (http[r].pc # "idle" /\ http[r].body.parsed) => AnsweredAsPromised(http[r])

\* C14: at most one Terminate message is ever sent upstream and nothing is
\* sent upstream after it.
C14_TerminateIsLast ==
    \A s \in SessionIds :
        /\ TerminatesSent(s) <= 1
        /\ \A i \in 1..Len(upSent[s]) :
              upSent[s][i] = Terminate => i = Len(upSent[s])

C14_Witness ==
    /\ Len(upSent["A"]) = 3
    /\ upSent["A"][3] = Terminate
    /\ upState["A"] = "CLOSED"
    /\ Len(clRecv["A"]) = 2

====
